---------------------------- MODULE Spec2Model ----------------------------
(***************************************************************************)
(* Verification model of the bundler: the gas estimator of                 *)
(* MethodHandlerERC4337 (getDepth, getCallGasLimit over a call trace) and  *)
(* the admission / bundling pipeline (Mempool, ReputationManager,          *)
(* BundlingEngine).  The pipeline modules (modules/ExecutionManager,        *)
(* MempoolManager, ReputationManager, BundleManager) are imported by the   *)
(* sources but their text is not part of the source tree at hand; they are *)
(* modelled from sections 3, 4.2, 4.3, 4.4 and 5 of the specification.     *)
(***************************************************************************)
EXTENDS Integers, Sequences, FiniteSets, TLC

VARIABLES
    mempool,      \* Mempool: sequence of MempoolEntry, in insertion order
    rep,          \* ReputationManager: entity -> ReputationEntry
    cycle,        \* BundlingEngine state
    bundle,       \* the Bundle of the running cycle (sequence of operation hashes)
    active,       \* number of bundling cycles started and not yet settled
    failCount,    \* consecutive submission errors of failedBundle
    failedBundle, \* the bundle whose submission failed last
    lastAdd,      \* value returned by the most recent Mempool.add
    trace,        \* the call trace handed to the gas estimator
    call,         \* the frame getCallGasLimit was applied to (0: null)
    gasResult,    \* what the gas estimation returned or threw
    userOp,       \* the UserOperation object handed to a method handler
    entryPointInput, \* the entryPoint parameter of the request
    preOpGas,     \* preOpGas decoded from the output of the simulation
    config,       \* BundlerConfig
    chain,        \* what the provider answers about the chain
    preflight,    \* where BundlerServer._preflightCheck stands
    served,       \* number of requests BundlerServer.rpc has handled
    response,     \* outcome of the most recent handleRpc
    reqItem,      \* the request item handed to the most recent handleRpc
    logs,         \* the logs of the bundle transaction's receipt
    userOpEvent,  \* the UserOperationEvent found for the requested hash
    receipt,      \* what getUserOperationReceipt returned or threw
    beneficiary   \* value returned by the most recent selectBeneficiary

rpcVars == <<userOp, entryPointInput, preOpGas, config, chain, preflight,
             served, response, reqItem, logs, userOpEvent, receipt,
             beneficiary>>

vars == <<mempool, rep, cycle, bundle, active, failCount,
          failedBundle, lastAdd, trace, call, gasResult, rpcVars>>

poolVars == <<mempool, rep, cycle, bundle, active, failCount,
              failedBundle, lastAdd>>

gasVars == <<trace, call, gasResult>>

NONE == "none"

Max(a, b) == IF a >= b THEN a ELSE b

\* the elements of a sequence, in order, that satisfy Keep
RECURSIVE SelectIdx(_, _, _)
SelectIdx(s, keep, i) ==
    IF i > Len(s) THEN <<>>
    ELSE (IF s[i].hash \in keep THEN <<s[i]>> ELSE <<>>) \o SelectIdx(s, keep, i + 1)

(***************************************************************************)
(* Operations.  An Operation is identified by its hash; the catalogue      *)
(* below is the bounded set of operations the environment submits.  Fees   *)
(* are in tenths of a unit (100 is a fee of 10, 105 a fee of 10.5).        *)
(***************************************************************************)
Operations ==
    <<  [sender |-> "s1", nonce |-> 5, fee |-> 100, gas |-> 2,
         paymaster |-> NONE, factory |-> NONE, aggregator |-> NONE],
        [sender |-> "s1", nonce |-> 5, fee |-> 105, gas |-> 2,
         paymaster |-> NONE, factory |-> NONE, aggregator |-> "e1"],
        [sender |-> "s1", nonce |-> 5, fee |-> 120, gas |-> 1,
         paymaster |-> "e1", factory |-> NONE, aggregator |-> NONE],
        [sender |-> "s1", nonce |-> 6, fee |-> 120, gas |-> 1,
         paymaster |-> NONE, factory |-> NONE, aggregator |-> NONE],
        [sender |-> "s2", nonce |-> 5, fee |-> 100, gas |-> 2,
         paymaster |-> NONE, factory |-> "e1", aggregator |-> NONE] >>

OpHashes == 1..Len(Operations)

Entities == {"s1", "s2", "e1"}

\* every address an operation references: sender, paymaster, factory, aggregator
EntitiesOf(h) ==
    {Operations[h].sender, Operations[h].paymaster, Operations[h].factory,
     Operations[h].aggregator} \ {NONE}

\* two operations of one sender with one nonce are conflicting
Conflicting(h1, h2) ==
    /\ Operations[h1].sender = Operations[h2].sender
    /\ Operations[h1].nonce = Operations[h2].nonce

(***************************************************************************)
(* ReputationManager (specification section 4.2).                          *)
(***************************************************************************)
MaxSeen == 1

BanCeiling == 1
ThrottleRatio == 2

Staked == {"s2"}

Statuses == {"OK", "THROTTLED", "BANNED"}

\* the entities and statuses the administrative override is exercised with
AdminTargets == {"e1"}
AdminStatuses == {"BANNED"}

FreshEntry == [opsSeen |-> 0, opsIncluded |-> 0, override |-> NONE]

\* Status, recomputed on read from the two counters unless overridden
Status(r, e) ==
    IF r[e].override # NONE THEN r[e].override
    ELSE IF r[e].opsSeen > BanCeiling /\ e \notin Staked THEN "BANNED"
    ELSE IF r[e].opsSeen > ThrottleRatio * r[e].opsIncluded THEN "THROTTLED"
    ELSE "OK"

noteSeen(r, e) == [r EXCEPT ![e].opsSeen = @ + 1]

noteIncluded(r, e) == [r EXCEPT ![e].opsIncluded = @ + 1]

setStatus(r, e, s) == [r EXCEPT ![e].override = s]

\* a window reset that forgets the inclusion counter
resetWindow_SeenOnly(r) ==
    [e \in Entities |-> [r[e] EXCEPT !.opsSeen = 0]]

\* the window reset zeroes both counters and keeps the override
resetWindow(r) ==
    [e \in Entities |-> [r[e] EXCEPT !.opsSeen = 0, !.opsIncluded = 0]]

clearReputation == [e \in Entities |-> FreshEntry]

\* noteSeen for every entity of every operation of a sequence of hashes
RECURSIVE noteSeenAll(_, _)
noteSeenAll(r, hs) ==
    IF hs = <<>> THEN r
    ELSE LET es == EntitiesOf(Head(hs))
             r1 == [e \in Entities |-> IF e \in es THEN noteSeen(r, e)[e] ELSE r[e]]
         IN  noteSeenAll(r1, Tail(hs))

\* noteIncluded for every entity of every operation of a sequence of hashes
RECURSIVE noteIncludedAll(_, _)
noteIncludedAll(r, hs) ==
    IF hs = <<>> THEN r
    ELSE LET es == EntitiesOf(Head(hs))
             r1 == [e \in Entities |-> IF e \in es THEN noteIncluded(r, e)[e] ELSE r[e]]
         IN  noteIncludedAll(r1, Tail(hs))

(***************************************************************************)
(* Mempool (specification section 4.3).                                    *)
(***************************************************************************)
PoolCapacity == 2
MinFeeBumpPercent == 10

\* priority score of an operation: monotonic in its fees
Priority(h) == Operations[h].fee

MakeEntry(h) ==
    [hash |-> h, prio |-> Priority(h)]

PoolHashes(pool) == {pool[i].hash : i \in 1..Len(pool)}

\* the outstanding entries of entity e that operation h would not replace
Outstanding(pool, e, h) ==
    {i \in 1..Len(pool) : e \in EntitiesOf(pool[i].hash) /\ ~Conflicting(pool[i].hash, h)}

RemoveHashes(pool, hs) == SelectIdx(pool, PoolHashes(pool) \ hs, 1)

\* remove(hash): idempotent, a no-op when the hash is absent
MempoolRemove(pool, h) == RemoveHashes(pool, {h})

\* a replacement rule that takes any fee increase
BumpsFee_AnyIncrease(new, old) == new > old

\* the new entry's priority exceeds the old one's by at least the minimum bump
BumpsFee(new, old) ==
    /\ new > old
    /\ new * 100 >= old * (100 + MinFeeBumpPercent)

\* position i ranks before position j: higher priority, earlier insertion on ties
RanksBefore(pool, i, j) ==
    \/ pool[i].prio > pool[j].prio
    \/ pool[i].prio = pool[j].prio /\ i < j

\* the entry that ranks last
LowestRanked(pool) ==
    CHOOSE i \in 1..Len(pool) : \A j \in 1..Len(pool) : j # i => RanksBefore(pool, j, i)

Rejected(pool, why) == [pool |-> pool, result |-> "rejected", reason |-> why, evicted |-> 0]

\* an add that never looks for an entry with the same (sender, nonce)
MempoolAdd_NoReplace(pool, r, h) ==
    LET es == EntitiesOf(h)
    IN  IF \E e \in es : Status(r, e) = "BANNED"
          THEN Rejected(pool, "banned")
        ELSE IF \E e \in es : Status(r, e) = "THROTTLED" /\ Outstanding(pool, e, h) # {}
          THEN Rejected(pool, "throttled")
        ELSE IF Len(pool) >= PoolCapacity
          THEN Rejected(pool, "pool full")
        ELSE [pool |-> Append(pool, MakeEntry(h)),
              result |-> "accepted", reason |-> NONE, evicted |-> 0]

\* add(entry) -> accepted | rejected(reason) | replaced(evictedHash)
MempoolAdd(pool, r, h) ==
    LET es == EntitiesOf(h)
        old == {i \in 1..Len(pool) : Conflicting(pool[i].hash, h)}
    IN  IF \E e \in es : Status(r, e) = "BANNED"
          THEN Rejected(pool, "banned")
        ELSE IF \E e \in es : Status(r, e) = "THROTTLED" /\ Outstanding(pool, e, h) # {}
          THEN Rejected(pool, "throttled")
        ELSE IF old # {}
          THEN LET i == CHOOSE k \in old : TRUE
               IN  IF BumpsFee(Priority(h), pool[i].prio)
                     THEN [pool |-> Append(MempoolRemove(pool, pool[i].hash), MakeEntry(h)),
                           result |-> "replaced", reason |-> NONE,
                           evicted |-> pool[i].hash]
                     ELSE Rejected(pool, "replacement underpriced")
        ELSE IF Len(pool) >= PoolCapacity
          THEN LET v == LowestRanked(pool)
               IN  IF pool[v].prio < Priority(h)
                     THEN [pool |-> Append(MempoolRemove(pool, pool[v].hash), MakeEntry(h)),
                           result |-> "accepted", reason |-> NONE, evicted |-> 0]
                     ELSE Rejected(pool, "pool full")
        ELSE [pool |-> Append(pool, MakeEntry(h)),
              result |-> "accepted", reason |-> NONE, evicted |-> 0]

\* a sort that puts the lowest priority first
RECURSIVE SortByPriority_Ascending(_, _)
SortByPriority_Ascending(pool, left) ==
    IF left = {} THEN <<>>
    ELSE LET b == CHOOSE i \in left : \A j \in left : j # i => RanksBefore(pool, j, i)
         IN  <<b>> \o SortByPriority_Ascending(pool, left \ {b})

\* the positions of the pool by descending priority score, earlier insertion first on ties
RECURSIVE SortByPriority(_, _)
SortByPriority(pool, left) ==
    IF left = {} THEN <<>>
    ELSE LET b == CHOOSE i \in left : \A j \in left : j # i => RanksBefore(pool, i, j)
         IN  <<b>> \o SortByPriority(pool, left \ {b})

\* the lowest-nonce pending entry of its sender
LowestNonce(pool, i) ==
    \A j \in 1..Len(pool) :
        Operations[pool[j].hash].sender = Operations[pool[i].hash].sender
            => Operations[pool[j].hash].nonce >= Operations[pool[i].hash].nonce

\* a selection that does not look at the Status of an entry's entities
RECURSIVE SelectFrom_KeepsBanned(_, _, _, _, _, _)
SelectFrom_KeepsBanned(pool, r, order, maxCount, maxGas, acc) ==
    IF order = <<>> \/ Len(acc.hashes) >= maxCount THEN acc.hashes
    ELSE LET i == Head(order)
             h == pool[i].hash
             skip == \/ ~LowestNonce(pool, i)
                     \/ Operations[h].sender \in acc.senders
                     \/ acc.gas + Operations[h].gas > maxGas
         IN  IF skip
               THEN SelectFrom_KeepsBanned(pool, r, Tail(order), maxCount, maxGas, acc)
               ELSE SelectFrom_KeepsBanned(pool, r, Tail(order), maxCount, maxGas,
                               [hashes |-> Append(acc.hashes, h),
                                gas |-> acc.gas + Operations[h].gas,
                                senders |-> acc.senders \cup {Operations[h].sender}])

RECURSIVE SelectFrom(_, _, _, _, _, _)
SelectFrom(pool, r, order, maxCount, maxGas, acc) ==
    IF order = <<>> \/ Len(acc.hashes) >= maxCount THEN acc.hashes
    ELSE LET i == Head(order)
             h == pool[i].hash
             skip == \/ \E e \in EntitiesOf(h) : Status(r, e) = "BANNED"
                     \/ ~LowestNonce(pool, i)
                     \/ Operations[h].sender \in acc.senders
                     \/ acc.gas + Operations[h].gas > maxGas
         IN  IF skip
               THEN SelectFrom(pool, r, Tail(order), maxCount, maxGas, acc)
               ELSE SelectFrom(pool, r, Tail(order), maxCount, maxGas,
                               [hashes |-> Append(acc.hashes, h),
                                gas |-> acc.gas + Operations[h].gas,
                                senders |-> acc.senders \cup {Operations[h].sender}])

\* selectForBundle(maxCount, maxGas) -> ordered Bundle candidate list
selectForBundle(pool, r, maxCount, maxGas) ==
    SelectFrom(pool, r, SortByPriority(pool, 1..Len(pool)), maxCount, maxGas,
               [hashes |-> <<>>, gas |-> 0, senders |-> {}])

\* the gas of the operations b[i], b[i+1], ...
RECURSIVE SumGas(_, _)
SumGas(b, i) == IF i > Len(b) THEN 0 ELSE Operations[b[i]].gas + SumGas(b, i + 1)

\* largest maxCount and maxGas selectForBundle is checked with
MaxCountArg == 3
MaxGasArg == 4

(***************************************************************************)
(* BundlingEngine (specification sections 4.4 and 5).                      *)
(***************************************************************************)
MaxBundleSize == 2
MaxBundleGas == 3
AutoBundleMempoolSize == 2
MaxSubmitFailures == 2

NoAdd == [result |-> NONE, reason |-> NONE, evicted |-> 0]

NoTrace == <<>>
NoResult == [kind |-> NONE]

\* the configuration runBundler builds from the command line and the config file
ENTRY_POINT == "0xEntryPoint"

DefaultConfig ==
    [entryPoint |-> ENTRY_POINT, beneficiary |-> "0xBeneficiary", minBalance |-> 1,
     debugRpc |-> FALSE, useRip7560Mode |-> FALSE, autoBundleInterval |-> 1]

HealthyChain == [code |-> "0x60", entryPointAnswers |-> TRUE, balance |-> 1]

NoUserOp == <<>>
NoResponse == [kind |-> NONE]
NoRequest == [shape |-> NONE]
NoEvent == [topic |-> NONE, hash |-> 0]

\* no request is being handled and the server has started
RpcIdle ==
    /\ userOp = NoUserOp
    /\ entryPointInput = NONE
    /\ preOpGas = 0
    /\ config = DefaultConfig
    /\ chain = HealthyChain
    /\ preflight = "done"
    /\ served = 0
    /\ response = NoResponse
    /\ reqItem = NoRequest
    /\ logs = <<>>
    /\ userOpEvent = NoEvent
    /\ receipt = NoResponse
    /\ beneficiary = NONE

Init ==
    /\ mempool = <<>>
    /\ rep = clearReputation
    /\ cycle = "Idle"
    /\ bundle = <<>>
    /\ active = 0
    /\ failCount = 0
    /\ failedBundle = <<>>
    /\ lastAdd = NoAdd
    /\ trace = NoTrace
    /\ call = 0
    /\ gasResult = NoResult
    /\ RpcIdle

\* Admission path: Mempool.add of a newly submitted operation; an admitted
\* operation is counted as seen for every entity it references.
SubmitOperation(h) ==
    /\ LET a == MempoolAdd(mempool, rep, h)
           r == IF a.result \in {"accepted", "replaced"}
                  THEN noteSeenAll(rep, <<h>>) ELSE rep
       IN  /\ \A e \in Entities : r[e].opsSeen <= MaxSeen
           /\ mempool' = a.pool
           /\ rep' = r
           /\ lastAdd' = [result |-> a.result, reason |-> a.reason,
                          evicted |-> a.evicted]
    /\ UNCHANGED <<cycle, bundle, active, failCount, failedBundle>>
    /\ UNCHANGED <<gasVars, rpcVars>>

\* Administrative surface and the reputation window
RemoveOperation(h) ==
    /\ mempool' = MempoolRemove(mempool, h)
    /\ lastAdd' = NoAdd
    /\ UNCHANGED <<rep, cycle, bundle, active, failCount, failedBundle>>
    /\ UNCHANGED <<gasVars, rpcVars>>

ClearMempool ==
    /\ mempool' = <<>>
    /\ lastAdd' = NoAdd
    /\ UNCHANGED <<rep, cycle, bundle, active, failCount, failedBundle>>
    /\ UNCHANGED <<gasVars, rpcVars>>

ClearReputation ==
    /\ rep' = clearReputation
    /\ lastAdd' = NoAdd
    /\ UNCHANGED <<mempool, cycle, bundle, active, failCount,
                   failedBundle>>
    /\ UNCHANGED <<gasVars, rpcVars>>

SetStatus(e, s) ==
    /\ rep' = setStatus(rep, e, s)
    /\ lastAdd' = NoAdd
    /\ UNCHANGED <<mempool, cycle, bundle, active, failCount,
                   failedBundle>>
    /\ UNCHANGED <<gasVars, rpcVars>>

WindowReset ==
    /\ rep' = resetWindow(rep)
    /\ lastAdd' = NoAdd
    /\ UNCHANGED <<mempool, cycle, bundle, active, failCount,
                   failedBundle>>
    /\ UNCHANGED <<gasVars, rpcVars>>

\* an entry point that starts a cycle whatever the state
EnterCycle_Unserialized ==
    /\ cycle' = "Validating"
    /\ active' = active + 1

\* The serialized cycle entry point both wake sources feed: a trigger that
\* finds a cycle running is coalesced, otherwise a cycle starts.
EnterCycle ==
    IF cycle = "Idle"
      THEN /\ cycle' = "Validating"
           /\ active' = active + 1
      ELSE UNCHANGED <<cycle, active>>

TimerTrigger ==
    /\ EnterCycle
    /\ lastAdd' = NoAdd
    /\ UNCHANGED <<mempool, rep, bundle, failCount, failedBundle>>
    /\ UNCHANGED <<gasVars, rpcVars>>

SizeTrigger ==
    /\ Len(mempool) >= AutoBundleMempoolSize
    /\ EnterCycle
    /\ lastAdd' = NoAdd
    /\ UNCHANGED <<mempool, rep, bundle, failCount, failedBundle>>
    /\ UNCHANGED <<gasVars, rpcVars>>

\* the hashes of a set, as a sequence
RECURSIVE SeqOf(_)
SeqOf(hs) ==
    IF hs = {} THEN <<>>
    ELSE LET h == CHOOSE x \in hs : TRUE IN <<h>> \o SeqOf(hs \ {h})

\* 1. Validating: the pending operations are simulated, so that every operation
\* of a Bundle passed validation in the cycle that selects it; the ones in bad
\* fail (rule violation or revert), are rejected and are noted as seen without
\* being noted as included.
CycleValidate(bad) ==
    /\ cycle = "Validating"
    /\ bad \subseteq PoolHashes(mempool)
    /\ LET r == noteSeenAll(rep, SeqOf(bad))
       IN  /\ \A e \in Entities : r[e].opsSeen <= MaxSeen
           /\ rep' = r
    /\ mempool' = RemoveHashes(mempool, bad)
    /\ cycle' = "Selecting"
    /\ lastAdd' = NoAdd
    /\ UNCHANGED <<bundle, active, failCount, failedBundle>>
    /\ UNCHANGED <<gasVars, rpcVars>>

\* 2. Selecting.  A bundle other than the one whose submission failed last
\* starts a new count of submission failures.
CycleSelect ==
    /\ cycle = "Selecting"
    /\ LET b == selectForBundle(mempool, rep, MaxBundleSize, MaxBundleGas)
       IN  /\ bundle' = b
           /\ IF b = failedBundle
                THEN UNCHANGED <<failCount, failedBundle>>
                ELSE failCount' = 0 /\ failedBundle' = <<>>
    /\ cycle' = "Submitting"
    /\ lastAdd' = NoAdd
    /\ UNCHANGED <<mempool, rep, active>>
    /\ UNCHANGED <<gasVars, rpcVars>>

\* 3. Submitting: the aggregated batch transaction is handed to the backend
CycleSubmit ==
    /\ cycle = "Submitting"
    /\ cycle' = "Settling"
    /\ lastAdd' = NoAdd
    /\ UNCHANGED <<mempool, rep, bundle, active, failCount, failedBundle>>
    /\ UNCHANGED <<gasVars, rpcVars>>

\* what the backend may answer: a confirmation, a whole-bundle revert naming
\* the offending entry (0: none identifiable), or a network/backend error
\* (a timeout is one)
Outcomes(b) ==
    {[kind |-> "confirmed", offender |-> 0], [kind |-> "error", offender |-> 0],
     [kind |-> "reverted", offender |-> 0]}
    \cup {[kind |-> "reverted", offender |-> b[i]] : i \in 1..Len(b)}

SeqHashes(b) == {b[i] : i \in 1..Len(b)}

\* this submission error is the last one tolerated for the same bundle
Poisoned == failCount + 1 >= MaxSubmitFailures

\* a confirmation that leaves the confirmed entries pending
SettleConfirmed_KeepsEntries ==
    /\ rep' = noteIncludedAll(rep, bundle)
    /\ mempool' = mempool
    /\ failCount' = 0
    /\ failedBundle' = <<>>

SettleConfirmed ==
    /\ rep' = noteIncludedAll(rep, bundle)
    /\ mempool' = RemoveHashes(mempool, SeqHashes(bundle))
    /\ failCount' = 0
    /\ failedBundle' = <<>>

SettleReverted(offender) ==
    /\ mempool' = MempoolRemove(mempool, offender)
    /\ failCount' = 0
    /\ failedBundle' = <<>>
    /\ UNCHANGED rep

\* a failure handling that drops the bundle's operations at once
SettleError_DropsBundle ==
    /\ mempool' = RemoveHashes(mempool, SeqHashes(bundle))
    /\ failCount' = 0
    /\ failedBundle' = <<>>
    /\ UNCHANGED rep

SettleError ==
    /\ IF Poisoned
         THEN /\ mempool' = RemoveHashes(mempool, SeqHashes(bundle))
              /\ failCount' = 0
              /\ failedBundle' = <<>>
         ELSE /\ mempool' = mempool
              /\ failCount' = failCount + 1
              /\ failedBundle' = bundle
    /\ UNCHANGED rep

\* 4. Settling: the backend answers o and the cycle concludes
CycleSettle(o) ==
    /\ cycle = "Settling"
    /\ o \in Outcomes(bundle)
    /\ CASE o.kind = "confirmed" -> SettleConfirmed
         [] o.kind = "reverted" -> SettleReverted(o.offender)
         [] OTHER -> SettleError
    /\ \A e \in Entities : rep'[e].opsIncluded <= MaxSeen
    /\ cycle' = "Idle"
    /\ active' = active - 1
    /\ bundle' = <<>>
    /\ lastAdd' = NoAdd
    /\ UNCHANGED <<gasVars, rpcVars>>

Next ==
    \/ \E h \in OpHashes : SubmitOperation(h)
    \/ \E h \in OpHashes : RemoveOperation(h)
    \/ ClearMempool
    \/ ClearReputation
    \/ \E e \in AdminTargets, s \in AdminStatuses : SetStatus(e, s)
    \/ WindowReset
    \/ TimerTrigger
    \/ SizeTrigger
    \/ \E bad \in SUBSET OpHashes : CycleValidate(bad)
    \/ CycleSelect
    \/ CycleSubmit
    \/ \E o \in Outcomes(bundle) : CycleSettle(o)

Spec == Init /\ [][Next]_vars

(***************************************************************************)
(* Gas estimation from a call trace (MethodHandlerERC4337.ts).             *)
(*                                                                         *)
(* A trace is the tree debug_traceCall returns.  It is kept as the         *)
(* sequence of its frames in the order a depth-first walk meets them;      *)
(* frame 1 is the top-level call and every other frame names its parent.   *)
(* The (from, to, selector) triple getCallFromTrace matches on is the      *)
(* marker of a frame.                                                      *)
(***************************************************************************)
MaxFrames == 3

EXECUTE_USEROP_SELECTOR == "0x8dd7712f"
VALIDATE_PAYMASTER_SELECTOR == "0x52b7512c"
POSTOP_SELECTOR == "0x7c627b21"
VERIFICATION_SELECTOR == "0x19822f7c"

Selectors ==
    {EXECUTE_USEROP_SELECTOR, VALIDATE_PAYMASTER_SELECTOR, POSTOP_SELECTOR,
     VERIFICATION_SELECTOR}

GasValues == {3969, 21000}

\* what a frame carries besides its place in the tree: a frame that matches no
\* marker, a marker frame that ran, or a marker frame that reverted
FrameLabels ==
    {[marker |-> NONE, gasUsed |-> 21000, error |-> FALSE]}
    \cup [marker : Selectors, gasUsed : GasValues, error : {FALSE}]
    \cup [marker : Selectors, gasUsed : {21000}, error : {TRUE}]

\* frame i and the frames above it
RECURSIVE Lineage(_, _)
Lineage(parents, i) == IF i = 0 THEN {} ELSE {i} \cup Lineage(parents, parents[i])

\* the parent functions of the trees with n frames, frames in depth-first order
Shapes(n) ==
    {parents \in [1..n -> 0..(n - 1)] :
        /\ parents[1] = 0
        /\ \A i \in 2..n : parents[i] \in Lineage(parents, i - 1)}

\* toLowerCase on the entry point addresses that occur
toLowerCase(a) ==
    IF a \in {"0xEntryPoint", "0xENTRYPOINT"} THEN "0xentrypoint"
    ELSE IF a = "0xOther" THEN "0xother"
    ELSE a

\* the address the handler looks for as callee of a phase: the sender of the
\* operation for execution and account validation, its paymaster for paymaster
\* validation and post-op
Callee(selector) ==
    IF selector \in {EXECUTE_USEROP_SELECTOR, VERIFICATION_SELECTOR} THEN "0xsender"
    ELSE IF selector \in {VALIDATE_PAYMASTER_SELECTOR, POSTOP_SELECTOR} THEN "0xpaymaster"
    ELSE "0xother"

\* the trace with the given parent function and frame labels; a frame is a call
\* of the entry point to the party its marker belongs to, and return data are
\* told apart by the frame's number
MakeTrace(parents, labels) ==
    [i \in DOMAIN parents |->
        [parent |-> parents[i], marker |-> labels[i].marker,
         gasUsed |-> labels[i].gasUsed, error |-> labels[i].error,
         type |-> "CALL", from |-> toLowerCase(ENTRY_POINT),
         to |-> Callee(labels[i].marker),
         output |-> i]]

\* the trace with the given parent function whose labels name caller, callee
\* and marker of each frame
AddressedTrace(parents, labels) ==
    [i \in DOMAIN parents |->
        [parent |-> parents[i], marker |-> labels[i].marker,
         gasUsed |-> 21000, error |-> FALSE,
         type |-> "CALL", from |-> labels[i].from, to |-> labels[i].to, output |-> i]]

RECURSIVE Ascending(_)
Ascending(S) ==
    IF S = {} THEN <<>>
    ELSE LET least == CHOOSE x \in S : \A y \in S : x <= y
         IN  <<least>> \o Ascending(S \ {least})

\* traceItem.calls
Calls(t, i) == Ascending({j \in 1..Len(t) : t[j].parent = i})

RECURSIVE getCallFromTrace(_, _, _, _, _)
RECURSIVE FirstInCalls(_, _, _, _, _)
\* a search that looks at the selector only
getCallFromTrace_SelectorOnly(t, i, from, to, selector) ==
    IF t[i].marker = selector THEN i
    ELSE FirstInCalls(t, Calls(t, i), from, to, selector)

\* the first frame from `from` to `to` whose input starts with the selector, in
\* a depth-first walk from frame i; 0 is null
getCallFromTrace(t, i, from, to, selector) ==
    IF t[i].from = from /\ t[i].to = to /\ t[i].marker = selector THEN i
    ELSE FirstInCalls(t, Calls(t, i), from, to, selector)

FirstInCalls(t, calls, from, to, selector) ==
    IF calls = <<>> THEN 0
    ELSE LET result == getCallFromTrace(t, Head(calls), from, to, selector)
         IN  IF result # 0 THEN result
             ELSE FirstInCalls(t, Tail(calls), from, to, selector)

\* getCallFromTrace(trace, entryPoint.address.toLowerCase(), callee, selector)
Locate(t, selector) ==
    getCallFromTrace(t, 1, toLowerCase(ENTRY_POINT), Callee(selector), selector)

\* a depth that does not count the frame itself
RECURSIVE getDepth_CountsCallsOnly(_, _)
RECURSIVE MaxDepth_CountsCallsOnly(_, _, _)
getDepth_CountsCallsOnly(t, i) ==
    IF Calls(t, i) = <<>> THEN 0
    ELSE MaxDepth_CountsCallsOnly(t, Calls(t, i), 0) + 1

MaxDepth_CountsCallsOnly(t, calls, maxDepth) ==
    IF calls = <<>> THEN maxDepth
    ELSE MaxDepth_CountsCallsOnly(t, Tail(calls),
                                  Max(maxDepth, getDepth_CountsCallsOnly(t, Head(calls))))

RECURSIVE getDepth(_, _)
RECURSIVE MaxDepth(_, _, _)
getDepth(t, i) ==
    IF Calls(t, i) = <<>> THEN 1
    ELSE MaxDepth(t, Calls(t, i), 0) + 1

\* the loop of getDepth over traceItem.calls
MaxDepth(t, calls, maxDepth) ==
    IF calls = <<>> THEN maxDepth
    ELSE MaxDepth(t, Tail(calls), Max(maxDepth, getDepth(t, Head(calls))))

RECURSIVE Pow(_, _)
Pow(b, n) == IF n = 0 THEN 1 ELSE b * Pow(b, n - 1)

\* floor(x * 2^k / b) for b > 0, the value BigInt arithmetic gives, computed
\* bit by bit on a quotient and a remainder so that no intermediate value
\* grows beyond 2 * b
RECURSIVE ShiftDiv(_, _, _, _)
ShiftDiv(q, r, k, b) ==
    IF k = 0 THEN q
    ELSE ShiftDiv(2 * q + ((2 * r) \div b), (2 * r) % b, k - 1, b)

\* (x * 64 ** depth) / 63 ** depth
ScaleByDepth(x, depth) ==
    LET b == Pow(63, depth)
    IN  ShiftDiv(x \div b, x % b, 6 * depth, b)

UserOperationReverted == "UserOperationReverted"

RpcError(msg, code, data) == [kind |-> "error", message |-> msg, code |-> code, data |-> data]

\* a message without parts taken from a frame
Text(words) == [template |-> words]

\* a message that names no frame
getSimulationErrorMessage_Generic(t, i) == Text("Unexpected simulation error")

\* `${type} ${input} from ${from} to ${to} reverted with "${error}:" ${output}`:
\* the template and the parts of the frame it is filled with
getSimulationErrorMessage(t, i) ==
    IF i # 0
      THEN [template |-> "reverted with", type |-> t[i].type, input |-> t[i].marker,
            from |-> t[i].from, to |-> t[i].to, error |-> t[i].error,
            output |-> t[i].output]
      ELSE Text("Unexpected simulation error")

\* a call that was not made costs nothing
getCallGasLimit_NullIsFree(t, c) ==
    IF c = 0 THEN [kind |-> "limit", value |-> 0]
    ELSE IF t[c].error
      THEN RpcError(getSimulationErrorMessage(t, c), UserOperationReverted, c)
    ELSE [kind |-> "limit", value |-> ScaleByDepth(t[c].gasUsed, getDepth(t, c)) + 2000]

getCallGasLimit(t, c) ==
    IF c = 0
      THEN RpcError(Text("No call was made. Was that intentional?"), UserOperationReverted, 0)
    ELSE IF t[c].error
      THEN RpcError(getSimulationErrorMessage(t, c), UserOperationReverted, c)
    ELSE [kind |-> "limit", value |-> ScaleByDepth(t[c].gasUsed, getDepth(t, c)) + 2000]

InitGas ==
    /\ mempool = <<>>
    /\ rep = clearReputation
    /\ cycle = "Idle"
    /\ bundle = <<>>
    /\ active = 0
    /\ failCount = 0
    /\ failedBundle = <<>>
    /\ lastAdd = NoAdd
    /\ \E n \in 1..MaxFrames : \E parents \in Shapes(n) : \E labels \in [1..n -> FrameLabels] :
          trace = MakeTrace(parents, labels)
    /\ call = 0
    /\ gasResult = NoResult
    /\ RpcIdle

\* estimateUserOperationGas locates the frame of one phase in the trace and
\* turns it into a gas limit
EstimateCall(selector) ==
    /\ call' = Locate(trace, selector)
    /\ gasResult' = getCallGasLimit(trace, call')
    /\ UNCHANGED trace
    /\ UNCHANGED <<poolVars, rpcVars>>

NextGas == \E selector \in Selectors : EstimateCall(selector)

SpecGas == InitGas /\ [][NextGas]_vars

\* traces whose frames differ in caller, callee and marker
InitLocate ==
    /\ mempool = <<>>
    /\ rep = clearReputation
    /\ cycle = "Idle"
    /\ bundle = <<>>
    /\ active = 0
    /\ failCount = 0
    /\ failedBundle = <<>>
    /\ lastAdd = NoAdd
    /\ \E n \in 1..MaxFrames : \E parents \in Shapes(n) :
          \E labels \in [1..n -> [from : {toLowerCase(ENTRY_POINT), "0xother"},
                                  to : {"0xsender", "0xpaymaster"},
                                  marker : {EXECUTE_USEROP_SELECTOR,
                                            VALIDATE_PAYMASTER_SELECTOR, NONE}]] :
              trace = AddressedTrace(parents, labels)
    /\ call = 0
    /\ gasResult = NoResult
    /\ RpcIdle

SpecLocate == InitLocate /\ [][NextGas]_vars

(***************************************************************************)
(* Request parameters (MethodHandlerERC4337._validateParameters).          *)
(*                                                                         *)
(* A UserOperation object is the record of its members; a member holds a   *)
(* hex string, a string that is no hex string, a number, or is missing.    *)
(***************************************************************************)
HexValue == "0x1"
NotHexValue == "zz"
NumberValue == "5"
BaseFields == <<"sender", "nonce", "callData">>
SignatureFields == <<"signature">>
GasFields ==
    <<"preVerificationGas", "verificationGasLimit", "callGasLimit", "maxFeePerGas",
      "maxPriorityFeePerGas">>
OpFields ==
    {(BaseFields \o SignatureFields \o GasFields \o <<"paymaster">>)[i] : i \in 1..10}

\* value.match(HEX_REGEX) != null for the string a member prints as
MatchesHex(value) == value \in {HexValue, "0x5", "0xc350"}

\* deepHexlify: numbers become hex strings, strings and missing members stay
deepHexlify(op) ==
    [f \in DOMAIN op |->
        IF op[f] = NumberValue THEN "0x5"
        ELSE IF op[f] = "50000" THEN "0xc350"
        ELSE op[f]]

EntryPointInputs == {NONE, "0xEntryPoint", "0xENTRYPOINT", "0xOther"}

InvalidFields == "InvalidFields"
InvalidParams == "-32602"

\* an Error or RpcError thrown by parameter validation
Thrown(msg, code) == [kind |-> "error", message |-> msg, code |-> code, data |-> 0]

Passed == [kind |-> "ok"]

\* fields.forEach: the first member that is missing or no hex string throws
RECURSIVE CheckFields(_, _)
CheckFields(op, fields) ==
    IF fields = <<>> THEN Passed
    ELSE LET key == Head(fields)
         IN  IF op[key] = NONE
               THEN Thrown([template |-> "Missing userOp field: ", key |-> key],
                           InvalidParams)
             ELSE IF ~MatchesHex(op[key])
               THEN Thrown([template |-> "Invalid hex value for property", key |-> key],
                           InvalidParams)
             ELSE CheckFields(op, Tail(fields))

\* requireAddressAndFields(userOp, "paymaster", ...): an address member that is
\* present has to be an address
requireAddressAndFields(op, field) ==
    IF op[field] # NONE /\ ~MatchesHex(op[field])
      THEN Thrown([template |-> "invalid address", key |-> field], InvalidFields)
      ELSE Passed

\* _validateParameters: Passed, or what it throws
validateParameters(op, entryPoint, requireSignature, requireGasParams) ==
    IF entryPoint = NONE THEN Thrown(Text("No entryPoint param"), InvalidParams)
    ELSE IF toLowerCase(entryPoint) # toLowerCase(config.entryPoint)
      THEN Thrown(Text("The EntryPoint is not supported"), NONE)
    ELSE IF DOMAIN op = {} THEN Thrown(Text("No UserOperation param"), InvalidFields)
    ELSE LET fields == BaseFields \o (IF requireSignature THEN SignatureFields ELSE <<>>)
                                  \o (IF requireGasParams THEN GasFields ELSE <<>>)
             checked == CheckFields(op, fields)
         IN  IF checked.kind # "ok" THEN checked
             ELSE requireAddressAndFields(op, "paymaster")

(***************************************************************************)
(* eth_estimateUserOperationGas (MethodHandlerERC4337.estimateUserOperationGas). *)
(***************************************************************************)
RECURSIVE findRevertedCall(_, _)
RECURSIVE FirstReverted(_, _)
\* the first frame without calls that has an error and is no STATICCALL, in a
\* depth-first walk from frame i; 0 is null
findRevertedCall(t, i) ==
    IF Calls(t, i) = <<>> /\ t[i].error /\ t[i].type # "STATICCALL" THEN i
    ELSE FirstReverted(t, Calls(t, i))

FirstReverted(t, calls) ==
    IF calls = <<>> THEN 0
    ELSE LET result == findRevertedCall(t, Head(calls))
         IN  IF result # 0 THEN result ELSE FirstReverted(t, Tail(calls))

\* return data that encodes a revert reason, and return data that encodes none
ReasonData == "0x08c379a0"
EmptyData == "0x"

NullMessage == [null |-> TRUE]

decodeRevertReason_Never(data) == NullMessage

\* decodeRevertReason: the reason the data encodes, null when it encodes none
decodeRevertReason(data) ==
    IF data = ReasonData THEN [template |-> "revert reason", output |-> data]
    ELSE NullMessage

\* BigInt division: the quotient is truncated towards zero
BigIntDiv_Floor(a, b) == a \div b

BigIntDiv(a, b) == IF a >= 0 THEN a \div b ELSE -((-a) \div b)

\* a share that is taken of ten instead of a hundred
GasOverhead_Tenths(epValidationGas, share) == BigIntDiv(epValidationGas * share, 10)

\* the share, in percent, of the validation gas the entry point used itself
GasOverhead(epValidationGas, share) == BigIntDiv(epValidationGas * share, 100)

\* userOp.preVerificationGas = 50_000
SetPreVerificationGas(op) ==
    IF "preVerificationGas" \in DOMAIN op
      THEN [op EXCEPT !["preVerificationGas"] = "50000"]
      ELSE op

Failed(op, error) == [result |-> error, userOp |-> op]

\* the four limits, or the first error getCallGasLimit throws, in the order
\* the handler computes them
Limits(t) ==
    LET executeCall == getCallGasLimit(t, Locate(t, EXECUTE_USEROP_SELECTOR))
        paymasterCall == getCallGasLimit(t, Locate(t, VALIDATE_PAYMASTER_SELECTOR))
        postOpCall == getCallGasLimit(t, Locate(t, POSTOP_SELECTOR))
        verificationCall == getCallGasLimit(t, Locate(t, VERIFICATION_SELECTOR))
    IN  IF executeCall.kind = "error" THEN executeCall
        ELSE IF paymasterCall.kind = "error" THEN paymasterCall
        ELSE IF postOpCall.kind = "error" THEN postOpCall
        ELSE IF verificationCall.kind = "error" THEN verificationCall
        ELSE [kind |-> "limits", callGasLimit |-> executeCall.value,
              paymasterVerification |-> paymasterCall.value,
              paymasterPostOp |-> postOpCall.value,
              accountVerification |-> verificationCall.value]

\* what the handler returns or throws, and the operation object afterwards;
\* t = NoTrace stands for a debug_traceCall the provider rejects
estimateUserOperationGas(op, entryPoint, t, pre) ==
    LET checked == validateParameters(deepHexlify(op), entryPoint, TRUE, TRUE)
    IN  IF checked.kind # "ok" THEN Failed(op, checked)
        ELSE IF t = NoTrace
          THEN Failed(op, Thrown(Text("provider error"), "SimulateValidation"))
        ELSE IF t[1].error
          THEN LET errorTraceItem == findRevertedCall(t, 1)
                   message == IF errorTraceItem # 0
                                THEN getSimulationErrorMessage(t, errorTraceItem)
                                ELSE decodeRevertReason(t[1].output)
               IN  Failed(op, RpcError(IF message = NullMessage
                                         THEN Text("Unexpected error during gas estimation")
                                         ELSE message,
                                       UserOperationReverted, errorTraceItem))
        ELSE IF op["paymaster"] = NONE
          THEN Failed(op, Thrown(Text("TypeError: userOp.paymaster is undefined"), NONE))
        ELSE LET limits == Limits(t)
             IN  IF limits.kind = "error" THEN Failed(op, limits)
                 ELSE LET epValidationGas ==
                              pre - limits.accountVerification - limits.paymasterVerification
                          accountValidationGasOverhead == GasOverhead(epValidationGas, 57)
                          paymasterValidationGasOverhead == GasOverhead(epValidationGas, 43)
                      IN  [result |->
                              [kind |-> "estimate",
                               preVerificationGas |-> "calcPreVerificationGas",
                               verificationGasLimit |->
                                   limits.accountVerification + accountValidationGasOverhead + 3000,
                               callGasLimit |-> limits.callGasLimit,
                               paymasterPostOpGasLimit |-> limits.paymasterPostOp,
                               paymasterVerificationGasLimit |->
                                   limits.paymasterVerification + paymasterValidationGasOverhead + 3000],
                           userOp |-> SetPreVerificationGas(op)]

\* the operations the estimation is asked about: a complete one, one without
\* the gas members, one with a number for the nonce, one without paymaster,
\* one without sender, one whose callData is no hex string
CompleteOp == [f \in OpFields |-> HexValue]

EstimateOps ==
    {CompleteOp,
     [f \in OpFields |-> IF \E i \in 1..Len(GasFields) : GasFields[i] = f THEN NONE ELSE HexValue],
     [CompleteOp EXCEPT !["nonce"] = NumberValue],
     [CompleteOp EXCEPT !["paymaster"] = NONE],
     [CompleteOp EXCEPT !["sender"] = NONE],
     [CompleteOp EXCEPT !["callData"] = NotHexValue]}

\* a trace whose top-level call reports an error
RevertTrace(parents, labels, data) ==
    [i \in DOMAIN parents |->
        [parent |-> parents[i], marker |-> NONE, gasUsed |-> 21000,
         error |-> (i = 1 \/ labels[i].error), type |-> labels[i].type,
         from |-> parents[i], to |-> i,
         output |-> IF i = 1 THEN data ELSE EmptyData]]

\* what the trace holds for one phase: no frame, a frame that ran, a frame that
\* reverted
PhaseSlots ==
    {[present |-> FALSE, gasUsed |-> 21000, error |-> FALSE]}
    \cup [present : {TRUE}, gasUsed : GasValues, error : {FALSE}]
    \cup [present : {TRUE}, gasUsed : {21000}, error : {TRUE}]

PhaseSelectors ==
    <<EXECUTE_USEROP_SELECTOR, VALIDATE_PAYMASTER_SELECTOR, POSTOP_SELECTOR,
      VERIFICATION_SELECTOR>>

RECURSIVE PhaseLabels(_, _)
PhaseLabels(slots, k) ==
    IF k > Len(PhaseSelectors) THEN <<>>
    ELSE (IF slots[k].present
            THEN <<[marker |-> PhaseSelectors[k], gasUsed |-> slots[k].gasUsed,
                    error |-> slots[k].error]>>
            ELSE <<>>) \o PhaseLabels(slots, k + 1)

\* a trace whose top-level call ran and made the calls of the phases
PhaseTrace(slots) ==
    LET labels == <<[marker |-> NONE, gasUsed |-> 21000, error |-> FALSE]>>
                      \o PhaseLabels(slots, 1)
    IN  MakeTrace([i \in 1..Len(labels) |-> IF i = 1 THEN 0 ELSE 1], labels)

InitEstimate ==
    /\ mempool = <<MakeEntry(1)>>
    /\ rep = noteSeenAll(clearReputation, <<1>>)
    /\ cycle = "Idle"
    /\ bundle = <<>>
    /\ active = 0
    /\ failCount = 0
    /\ failedBundle = <<>>
    /\ lastAdd = NoAdd
    /\ call = 0
    /\ gasResult = NoResult
    /\ userOp \in EstimateOps
    /\ entryPointInput \in EntryPointInputs
    /\ \/ trace = NoTrace /\ preOpGas = 0
       \/ /\ \E n \in 1..MaxFrames : \E parents \in Shapes(n) :
                \E labels \in [1..n -> [type : {"CALL", "STATICCALL"}, error : BOOLEAN]] : \E data \in {ReasonData, EmptyData} :
                    trace = RevertTrace(parents, labels, data)
          /\ preOpGas = 0
       \/ /\ \E slots \in [1..Len(PhaseSelectors) -> PhaseSlots] : trace = PhaseTrace(slots)
          /\ preOpGas \in {10000, 50000, 60001}
    /\ config = DefaultConfig
    /\ chain = HealthyChain
    /\ preflight = "done"
    /\ served = 0
    /\ response = NoResponse
    /\ reqItem = NoRequest
    /\ logs = <<>>
    /\ userOpEvent = NoEvent
    /\ receipt = NoResponse
    /\ beneficiary = NONE

\* one eth_estimateUserOperationGas request, from parameter validation to the
\* value returned or the error thrown
EstimateUserOperationGas ==
    /\ gasResult = NoResult
    /\ LET r == estimateUserOperationGas(userOp, entryPointInput, trace, preOpGas)
       IN  /\ gasResult' = r.result
           /\ userOp' = r.userOp
    /\ UNCHANGED <<trace, call, entryPointInput, preOpGas, config, chain, preflight,
                   served, response, reqItem, logs, userOpEvent, receipt,
             beneficiary>>
    /\ UNCHANGED poolVars

SpecEstimate == InitEstimate /\ [][EstimateUserOperationGas]_vars

(***************************************************************************)
(* eth_sendUserOperation (MethodHandlerERC4337.sendUserOperation).  The    *)
(* execution manager it forwards to admits the operation to the mempool.   *)
(***************************************************************************)
\* the operations a client sends: complete, without paymaster, without the gas
\* members, without sender, without signature, with a number for the nonce,
\* with callData that is no hex string, with a paymaster that is no address,
\* and no operation at all
SendOps ==
    {CompleteOp,
     [CompleteOp EXCEPT !["paymaster"] = NONE],
     [f \in OpFields |-> IF \E i \in 1..Len(GasFields) : GasFields[i] = f THEN NONE ELSE HexValue],
     [CompleteOp EXCEPT !["sender"] = NONE],
     [CompleteOp EXCEPT !["signature"] = NONE],
     [CompleteOp EXCEPT !["nonce"] = NumberValue],
     [CompleteOp EXCEPT !["callData"] = NotHexValue],
     [CompleteOp EXCEPT !["paymaster"] = NotHexValue],
     NoUserOp}

\* execManager.sendUserOperation: the operation is added to the mempool and its
\* entities are noted as seen; a rejection by the mempool is thrown
execManagerSend(pool, r, h) ==
    LET a == MempoolAdd(pool, r, h)
        admitted == a.result \in {"accepted", "replaced"}
    IN  [response |-> IF admitted
                        THEN [kind |-> "result", message |-> Text("userOpHash"),
                              code |-> NONE, data |-> h]
                        ELSE Thrown(Text(a.reason), "rejected"),
         pool |-> a.pool,
         rep |-> IF admitted THEN noteSeenAll(r, <<h>>) ELSE r,
         add |-> [result |-> a.result, reason |-> a.reason, evicted |-> a.evicted]]

\* a handler that forwards the operation before it looks at the parameters
sendUserOperation_ForwardsFirst(op, entryPoint, pool, r, h) ==
    LET checked == validateParameters(op, entryPoint, TRUE, TRUE)
        sent == execManagerSend(pool, r, h)
    IN  IF checked.kind # "ok" THEN [sent EXCEPT !.response = checked] ELSE sent

\* what the handler returns or throws, the mempool and the reputation records
\* afterwards, and the result of the add it made (NoAdd when it made none)
sendUserOperation(op, entryPoint, pool, r, h) ==
    LET checked == validateParameters(op, entryPoint, TRUE, TRUE)
    IN  IF checked.kind # "ok"
          THEN [response |-> checked, pool |-> pool, rep |-> r, add |-> NoAdd]
          ELSE execManagerSend(pool, r, h)

InitSend ==
    /\ mempool = <<>>
    /\ rep = clearReputation
    /\ cycle = "Idle"
    /\ bundle = <<>>
    /\ active = 0
    /\ failCount = 0
    /\ failedBundle = <<>>
    /\ lastAdd = NoAdd
    /\ trace = NoTrace
    /\ call = 0
    /\ gasResult = NoResult
    /\ RpcIdle

\* one eth_sendUserOperation request; h is the operation the members encode
SendUserOperation(op, entryPoint, h) ==
    /\ LET sent == sendUserOperation(op, entryPoint, mempool, rep, h)
       IN  /\ \A e \in Entities : sent.rep[e].opsSeen <= MaxSeen
           /\ mempool' = sent.pool
           /\ rep' = sent.rep
           /\ lastAdd' = sent.add
           /\ response' = sent.response
    /\ userOp' = op
    /\ entryPointInput' = entryPoint
    /\ UNCHANGED <<cycle, bundle, active, failCount, failedBundle>>
    /\ UNCHANGED <<preOpGas, config, chain, preflight, served, reqItem, logs, userOpEvent,
                   receipt, beneficiary>>
    /\ UNCHANGED gasVars

NextSend ==
    \E op \in SendOps, entryPoint \in EntryPointInputs, h \in OpHashes :
        SendUserOperation(op, entryPoint, h)

SpecSend == InitSend /\ [][NextSend]_vars

(***************************************************************************)
(* eth_getUserOperationReceipt (MethodHandlerERC4337.getUserOperationReceipt *)
(* and _filterLogs).                                                        *)
(***************************************************************************)
MaxOps == 3
MaxGroup == 2

\* the logs of a bundle of Len(sizes) operations from operation k on: the
\* sizes[k] logs the k-th operation emitted, then its UserOperationEvent, whose
\* second topic is the operation's hash; logIndex is the log's place in the
\* receipt
RECURSIVE GroupLogs(_, _, _)
GroupLogs(sizes, k, logIndex) ==
    IF k > Len(sizes) THEN <<>>
    ELSE [i \in 1..sizes[k] |-> [topic |-> "Transfer", hash |-> 0, logIndex |-> logIndex + i]]
         \o <<[topic |-> "UserOperationEvent", hash |-> k,
               logIndex |-> logIndex + sizes[k] + 1]>>
         \o GroupLogs(sizes, k + 1, logIndex + sizes[k] + 1)

\* bundle logs: a BeforeExecution event, then the group of each operation
BundleLogs(sizes) ==
    <<[topic |-> "BeforeExecution", hash |-> 0, logIndex |-> 0]>> \o GroupLogs(sizes, 1, 0)

\* logs.forEach of _filterLogs from element i on; se is <<startIndex, endIndex>>
\* and indexes count from 0
RECURSIVE ForEachLog(_, _, _, _)
ForEachLog(event, ls, i, se) ==
    IF i > Len(ls) THEN se
    ELSE ForEachLog(event, ls, i + 1,
             IF ls[i].topic = "BeforeExecution" THEN <<i - 1, i - 1>>
             ELSE IF ls[i].topic = event.topic
               THEN IF ls[i].hash = event.hash THEN <<se[1], i - 1>>
                    ELSE IF se[2] = -1 THEN <<i - 1, se[2]>>
                    ELSE se
             ELSE se)

\* logs.slice(startIndex + 1, endIndex) for indexes that count from 0, or the
\* error thrown when no UserOperationEvent of the operation was seen
Sliced(ls, se) ==
    IF se[2] = -1 THEN Thrown(Text("fatal: no UserOperationEvent in logs"), NONE)
    ELSE [kind |-> "receipt", logs |-> SubSeq(ls, se[1] + 2, se[2])]

\* _filterLogs
filterLogs(event, ls) == Sliced(ls, ForEachLog(event, ls, 1, <<-1, -1>>))

InitReceipt ==
    /\ mempool = <<>>
    /\ rep = clearReputation
    /\ cycle = "Idle"
    /\ bundle = <<>>
    /\ active = 0
    /\ failCount = 0
    /\ failedBundle = <<>>
    /\ lastAdd = NoAdd
    /\ trace = NoTrace
    /\ call = 0
    /\ gasResult = NoResult
    /\ userOp = NoUserOp
    /\ entryPointInput = NONE
    /\ preOpGas = 0
    /\ config = DefaultConfig
    /\ chain = HealthyChain
    /\ preflight = "done"
    /\ served = 0
    /\ response = NoResponse
    /\ \E n \in 1..MaxOps : \E sizes \in [1..n -> 0..MaxGroup] : \E k \in 1..n :
          /\ logs = BundleLogs(sizes)
          /\ userOpEvent = [topic |-> "UserOperationEvent", hash |-> k]
    /\ reqItem = NoRequest
    /\ receipt = NoResponse
    /\ beneficiary = NONE

\* one eth_getUserOperationReceipt request for the operation of userOpEvent
GetUserOperationReceipt ==
    /\ receipt' = filterLogs(userOpEvent, logs)
    /\ UNCHANGED <<userOp, entryPointInput, preOpGas, config, chain, preflight, served,
                   response>>
    /\ UNCHANGED <<reqItem, logs, userOpEvent, beneficiary>>
    /\ UNCHANGED <<poolVars, gasVars>>

SpecReceipt == InitReceipt /\ [][GetUserOperationReceipt]_vars

(***************************************************************************)
(* MethodHandlerERC4337.selectBeneficiary.                                 *)
(***************************************************************************)
MaxBalance == 7

SIGNER == "0xSigner"

\* the address that receives the fees of a bundle
selectBeneficiary(currentBalance, cfg) ==
    IF currentBalance <= cfg.minBalance THEN SIGNER ELSE cfg.beneficiary

InitBeneficiary ==
    /\ mempool = <<MakeEntry(1)>>
    /\ rep = noteSeenAll(clearReputation, <<1>>)
    /\ cycle = "Idle"
    /\ bundle = <<>>
    /\ active = 0
    /\ failCount = 0
    /\ failedBundle = <<>>
    /\ lastAdd = NoAdd
    /\ trace = NoTrace
    /\ call = 0
    /\ gasResult = NoResult
    /\ userOp = NoUserOp
    /\ entryPointInput = NONE
    /\ preOpGas = 0
    /\ \E minBalance \in 0..MaxBalance : config = [DefaultConfig EXCEPT !.minBalance = minBalance]
    /\ \E balance \in 0..MaxBalance : chain = [HealthyChain EXCEPT !.balance = balance]
    /\ preflight = "done"
    /\ served = 0
    /\ response = NoResponse
    /\ reqItem = NoRequest
    /\ logs = <<>>
    /\ userOpEvent = NoEvent
    /\ receipt = NoResponse
    /\ beneficiary = NONE

SelectBeneficiary ==
    /\ beneficiary' = selectBeneficiary(chain.balance, config)
    /\ UNCHANGED <<userOp, entryPointInput, preOpGas, config, chain, preflight, served,
                   response, reqItem, logs, userOpEvent, receipt>>
    /\ UNCHANGED <<poolVars, gasVars>>

SpecBeneficiary == InitBeneficiary /\ [][SelectBeneficiary]_vars

(***************************************************************************)
(* BundlerServer: the preflight check started by the constructor and the    *)
(* JSON-RPC dispatch (rpc, handleRpc, handleMethod).  The methods kept are  *)
(* the debug_bundler_ family, eth_chainId, eth_supportedEntryPoints,        *)
(* eth_sendUserOperation and a method the server does not know.             *)
(***************************************************************************)
MaxServed == 2

MethodNotFound == "-32601"
Undefined == "undefined"

DebugMethods ==
    {"debug_bundler_clearState", "debug_bundler_dumpMempool",
     "debug_bundler_clearMempool", "debug_bundler_setReputation",
     "debug_bundler_dumpReputation", "debug_bundler_clearReputation",
     "debug_bundler_setBundlingMode", "debug_bundler_setBundleInterval",
     "debug_bundler_sendBundleNow", "debug_bundler_getStakeStatus"}

OtherMethods == {"eth_chainId", "eth_supportedEntryPoints", "eth_unknown", Undefined}

\* request items: null, a number, and objects with or without a method
NullItem ==
    [shape |-> "null", method |-> Undefined, jsonrpc |-> Undefined, id |-> Undefined,
     params |-> NoUserOp]

ObjectItem(method, op) ==
    [shape |-> "object", method |-> method, jsonrpc |-> "2.0", id |-> "1", params |-> op]

ReqItems ==
    {NullItem, [NullItem EXCEPT !.shape = "number"]}
    \cup {ObjectItem(m, NoUserOp) : m \in DebugMethods \cup OtherMethods}
    \cup {ObjectItem("eth_sendUserOperation", op) :
            op \in {CompleteOp, [CompleteOp EXCEPT !["callData"] = NotHexValue]}}

\* the state the handlers share
ServerState ==
    [mempool |-> mempool, rep |-> rep, cycle |-> cycle, active |-> active,
     lastAdd |-> lastAdd, config |-> config]

Returned(value) == [kind |-> "result", value |-> value]

\* a debug handler that is there whatever the flag says
debugHandlerGet_AlwaysEnabled(cfg, method) == Passed

\* reading a member of debugHandler: the DebugMethodHandler when debugRpc is
\* set, else a Proxy whose get trap throws
debugHandlerGet(cfg, method) ==
    IF cfg.debugRpc THEN Passed
    ELSE Thrown([template |-> "method is not supported", method |-> method], MethodNotFound)

\* what the methods of DebugMethodHandler return (null when nothing) and do
DebugMethodHandler(method, st) ==
    IF method = "debug_bundler_clearState"
      THEN [value |-> Undefined,
            st |-> [st EXCEPT !.mempool = <<>>, !.rep = clearReputation, !.lastAdd = NoAdd]]
    ELSE IF method = "debug_bundler_dumpMempool"
      THEN [value |-> "mempool dump", st |-> st]
    ELSE IF method = "debug_bundler_clearMempool"
      THEN [value |-> Undefined, st |-> [st EXCEPT !.mempool = <<>>, !.lastAdd = NoAdd]]
    ELSE IF method = "debug_bundler_setReputation"
      THEN [value |-> Undefined,
            st |-> [st EXCEPT !.rep = setStatus(st.rep, "e1", "BANNED"), !.lastAdd = NoAdd]]
    ELSE IF method = "debug_bundler_dumpReputation"
      THEN [value |-> "reputation dump", st |-> st]
    ELSE IF method = "debug_bundler_clearReputation"
      THEN [value |-> Undefined, st |-> [st EXCEPT !.rep = clearReputation, !.lastAdd = NoAdd]]
    ELSE IF method = "debug_bundler_setBundlingMode"
      THEN [value |-> Undefined, st |-> [st EXCEPT !.config.autoBundleInterval = 0]]
    ELSE IF method = "debug_bundler_setBundleInterval"
      THEN [value |-> Undefined, st |-> [st EXCEPT !.config.autoBundleInterval = 2]]
    ELSE IF method = "debug_bundler_sendBundleNow"
      THEN [value |-> Undefined,
            st |-> IF st.cycle = "Idle"
                     THEN [st EXCEPT !.cycle = "Validating", !.active = st.active + 1,
                                     !.lastAdd = NoAdd]
                     ELSE st]
    ELSE [value |-> "stake status", st |-> st]

\* the methods for which handleMethod answers with what the handler returned
ReturnsHandlerValue ==
    {"debug_bundler_dumpMempool", "debug_bundler_dumpReputation",
     "debug_bundler_sendBundleNow", "debug_bundler_getStakeStatus"}

\* eth_sendUserOperation: the hash the handler returned or the error it threw
AfterSend(st, sent) ==
    [outcome |-> IF sent.response.kind = "result"
                   THEN Returned("userOpHash") ELSE sent.response,
     st |-> [st EXCEPT !.mempool = sent.pool, !.rep = sent.rep, !.lastAdd = sent.add]]

\* what handleMethod returns or throws, and the shared state afterwards
handleMethod(item, st) ==
    IF item.method = "eth_chainId" THEN [outcome |-> Returned("chainId"), st |-> st]
    ELSE IF item.method = "eth_supportedEntryPoints"
      THEN [outcome |-> Returned(st.config.entryPoint), st |-> st]
    ELSE IF item.method = "eth_sendUserOperation"
      THEN AfterSend(st, sendUserOperation(item.params, ENTRY_POINT, st.mempool, st.rep, 1))
    ELSE IF item.method \in DebugMethods
      THEN LET got == debugHandlerGet(st.config, item.method)
               done == DebugMethodHandler(item.method, st)
           IN  IF got.kind # "ok" THEN [outcome |-> got, st |-> st]
               ELSE [outcome |-> Returned(IF item.method \in ReturnsHandlerValue
                                              /\ done.value # Undefined
                                            THEN done.value ELSE "ok"),
                     st |-> done.st]
    ELSE [outcome |-> Thrown([template |-> "Method is not supported",
                              method |-> item.method], MethodNotFound),
          st |-> st]

\* handleRpc does not return: reading the members of a null item throws
\* outside its try block
Uncaught == [thrown |-> "TypeError"]

\* the response built in the try block or in the catch block of handleRpc
Respond(item, handled) ==
    [response |->
        IF handled.outcome.kind = "result"
          THEN [jsonrpc |-> item.jsonrpc, id |-> item.id,
                result |-> handled.outcome.value]
          ELSE [jsonrpc |-> item.jsonrpc, id |-> item.id,
                error |-> [message |-> handled.outcome.message,
                           data |-> handled.outcome.data,
                           code |-> handled.outcome.code]],
     st |-> handled.st]

\* the response handleRpc returns, and the shared state afterwards
handleRpc(item, st) ==
    IF item.shape = "null" THEN [response |-> Uncaught, st |-> st]
    ELSE Respond(item, handleMethod(item, st))

\* what the provider may answer to the preflight check
Chains ==
    {HealthyChain,
     [HealthyChain EXCEPT !.code = "0x"],
     [HealthyChain EXCEPT !.entryPointAnswers = FALSE],
     [HealthyChain EXCEPT !.balance = 0]}

\* the constructor has returned: the server listens and _preflightCheck has run
\* up to its first await
InitServer ==
    /\ mempool = <<>>
    /\ rep = clearReputation
    /\ cycle = "Idle"
    /\ bundle = <<>>
    /\ active = 0
    /\ failCount = 0
    /\ failedBundle = <<>>
    /\ lastAdd = NoAdd
    /\ trace = NoTrace
    /\ call = 0
    /\ gasResult = NoResult
    /\ userOp = NoUserOp
    /\ entryPointInput = NONE
    /\ preOpGas = 0
    /\ \E debugRpc \in BOOLEAN, useRip7560Mode \in BOOLEAN :
          config = [DefaultConfig EXCEPT !.debugRpc = debugRpc,
                                         !.useRip7560Mode = useRip7560Mode]
    /\ chain \in Chains
    /\ preflight = IF config.useRip7560Mode THEN "done" ELSE "getCode"
    /\ served = 0
    /\ response = NoResponse
    /\ reqItem = NoRequest
    /\ logs = <<>>
    /\ userOpEvent = NoEvent
    /\ receipt = NoResponse
    /\ beneficiary = NONE

PreflightStep(at, fatal, then) ==
    /\ preflight = at
    /\ preflight' = IF fatal THEN "halted" ELSE then
    /\ UNCHANGED <<userOp, entryPointInput, preOpGas, config, chain, served, response,
                   reqItem, logs, userOpEvent, receipt, beneficiary>>
    /\ UNCHANGED <<poolVars, gasVars>>

\* provider.getCode(entryPoint) has answered
PreflightGetCode == PreflightStep("getCode", chain.code = "0x", "getUserOpHash")

\* the getUserOpHash call on the entry point has answered or failed
PreflightGetUserOpHash ==
    PreflightStep("getUserOpHash", ~chain.entryPointAnswers, "getBalance")

\* provider.getBalance(signer) has answered
PreflightGetBalance == PreflightStep("getBalance", chain.balance = 0, "done")

\* the server handles one request item
HandleRpc(item) ==
    /\ preflight # "halted"
    /\ served < MaxServed
    /\ \E handled \in {handleRpc(item, ServerState)} :
           /\ \A e \in Entities : handled.st.rep[e].opsSeen <= MaxSeen
           /\ mempool' = handled.st.mempool
           /\ rep' = handled.st.rep
           /\ cycle' = handled.st.cycle
           /\ active' = handled.st.active
           /\ lastAdd' = handled.st.lastAdd
           /\ config' = handled.st.config
           /\ response' = handled.response
    /\ reqItem' = item
    /\ UNCHANGED <<logs, userOpEvent, receipt>>
    /\ served' = served + 1
    /\ userOp' = IF item.method = "eth_sendUserOperation" THEN item.params ELSE userOp
    /\ entryPointInput' =
          IF item.method = "eth_sendUserOperation" THEN ENTRY_POINT ELSE entryPointInput
    /\ UNCHANGED <<bundle, failCount, failedBundle, preOpGas, chain, preflight, beneficiary>>
    /\ UNCHANGED gasVars

NextServer ==
    \/ PreflightGetCode
    \/ PreflightGetUserOpHash
    \/ PreflightGetBalance
    \/ \E item \in ReqItems : HandleRpc(item)

SpecServer == InitServer /\ [][NextServer]_vars

(***************************************************************************)
(* Properties of the gas estimation.                                       *)
(***************************************************************************)
\* how many frames lie on the path from frame j up to frame c; 0 when j is
\* not in the subtree of c
RECURSIVE PathLength(_, _, _)
PathLength(t, j, c) ==
    IF j = 0 THEN 0
    ELSE IF j = c THEN 1
    ELSE LET up == PathLength(t, t[j].parent, c)
         IN  IF up = 0 THEN 0 ELSE up + 1

\* the height of the call subtree rooted at frame c
Height(t, c) ==
    CHOOSE d \in 1..Len(t) :
        /\ \E j \in 1..Len(t) : PathLength(t, j, c) = d
        /\ \A j \in 1..Len(t) : PathLength(t, j, c) <= d

\* the product a * b of naturals a < 2^16 and b < 2^31 as two limbs <<hi, lo>>
\* standing for hi * 32768 + lo with lo < 32768
Product(a, b) ==
    LET high == a * (b \div 32768)
        low == a * (b % 32768)
    IN  <<high + (low \div 32768), low % 32768>>

AtMost(p, q) == p[1] < q[1] \/ (p[1] = q[1] /\ p[2] <= q[2])

\* q = floor(x * 64^d / 63^d)
IsScaledFloor(q, x, d) ==
    /\ q >= 0
    /\ AtMost(Product(q, Pow(63, d)), Product(x, Pow(64, d)))
    /\ ~AtMost(Product(q + 1, Pow(63, d)), Product(x, Pow(64, d)))

\* C1: for a located frame that reports no error getCallGasLimit returns
\* floor(gasUsed * 64^d / 63^d) + 2000 with d the height of the frame's call
\* subtree (1 for a frame without calls); 21000 at height 3 gives 24015.
C1_CallGasLimit ==
    (gasResult # NoResult /\ call # 0 /\ ~trace[call].error) =>
        LET d == Height(trace, call)
            x == trace[call].gasUsed
        IN  /\ gasResult.kind = "limit"
            /\ IsScaledFloor(gasResult.value - 2000, x, d)
            /\ d = 1 => gasResult.value = ((x * 64) \div 63) + 2000
            /\ (x = 21000 /\ d = 3) => gasResult.value = 24015

\* the limit of a frame with gasUsed 21000 whose subtree is three frames high
C1_Witness ==
    /\ gasResult # NoResult
    /\ call # 0
    /\ trace[call].gasUsed = 21000
    /\ Height(trace, call) = 3
    /\ gasResult.kind = "limit"
    /\ gasResult.value = 24015

\* C11: for a located frame that reports an error getCallGasLimit yields no
\* limit but an error with code UserOperationReverted whose message carries
\* the frame's call type, input, callee, error and output, and whose data is
\* the frame.
C11_RevertedFrame ==
    (gasResult # NoResult /\ call # 0 /\ trace[call].error) =>
        /\ gasResult.kind = "error"
        /\ gasResult.code = "UserOperationReverted"
        /\ gasResult.data = call
        /\ DOMAIN gasResult.message =
               {"template", "type", "input", "from", "to", "error", "output"}
        /\ gasResult.message.type = trace[call].type
        /\ gasResult.message.input = trace[call].marker
        /\ gasResult.message.to = trace[call].to
        /\ gasResult.message.error = trace[call].error
        /\ gasResult.message.output = trace[call].output

\* the located frame is a call made by another frame, and it reverted
C11_Witness ==
    /\ gasResult # NoResult
    /\ call > 1
    /\ trace[call].error
    /\ gasResult.kind = "error"
    /\ gasResult.data = call

\* C10 as stated: the error signalled when the marker frame is absent from the
\* trace has a code other than the one signalled for a frame that reverted.
C10_AsStated ==
    (gasResult # NoResult /\ call = 0) =>
        \A i \in 1..Len(trace) :
            trace[i].error => gasResult.code # getCallGasLimit(trace, i).code

(***************************************************************************)
(* Properties of the admission and bundling pipeline.                      *)
(***************************************************************************)
ArgCounts == 0..MaxCountArg
ArgGases == 0..MaxGasArg

BundleGas(b) == SumGas(b, 1)

\* the step is an admission: every admission leaves its result in lastAdd and
\* every other step clears it
AddStep == lastAdd' # NoAdd

\* C2: between Mempool operations the pool never holds two entries with the
\* same (sender, nonce).
C2_NoConflictingEntries ==
    \A i, j \in 1..Len(mempool) :
        i # j => ~Conflicting(mempool[i].hash, mempool[j].hash)

\* a replacement has just happened in a pool that holds another entry too
C2_Witness ==
    /\ lastAdd.result = "replaced"
    /\ Len(mempool) = 2

\* the new priority exceeds the old one by at least the minimum fee bump
ExceedsByMinBump(new, old) ==
    new > old /\ 100 * new >= (100 + MinFeeBumpPercent) * old

\* no entity of operation h is BANNED, or THROTTLED with an outstanding entry
\* other than the one h conflicts with
ReputationAdmits(h) ==
    \A e \in EntitiesOf(h) :
        /\ Status(rep, e) # "BANNED"
        /\ Status(rep, e) = "THROTTLED" =>
              \A i \in 1..Len(mempool) :
                  e \in EntitiesOf(mempool[i].hash) => Conflicting(mempool[i].hash, h)

\* what C3 says of add(B) when entry i of the pool holds a conflicting A
ReplaceOrUnderpriced(h, i) ==
    IF ExceedsByMinBump(Priority(h), mempool[i].prio)
      THEN /\ lastAdd'.result = "replaced"
           /\ lastAdd'.evicted = mempool[i].hash
           /\ mempool[i].hash \notin PoolHashes(mempool')
           /\ h \in PoolHashes(mempool')
      ELSE /\ lastAdd'.result = "rejected"
           /\ lastAdd'.reason = "replacement underpriced"
           /\ mempool' = mempool

C4_BannedExcluded ==
    [][/\ AddStep => \A h \in OpHashes :
            ((\E e \in EntitiesOf(h) : Status(rep, e) = "BANNED") /\ SubmitOperation(h))
                => /\ lastAdd'.result = "rejected"
                   /\ mempool' = mempool
                   /\ rep' = rep
       /\ (cycle = "Selecting" /\ cycle' = "Submitting")
            => /\ \A k \in 1..Len(bundle') : \A e \in EntitiesOf(bundle'[k]) :
                      Status(rep, e) # "BANNED"
               /\ mempool' = mempool
               /\ rep' = rep]_vars

\* a bundle was selected while the paymaster of a pending entry, admitted and
\* counted as seen before, is banned: the entry is in the pool, not the bundle
C4_Witness ==
    /\ cycle = "Submitting"
    /\ Status(rep, "e1") = "BANNED"
    /\ rep["e1"].opsSeen = 1
    /\ PoolHashes(mempool) = {3, 5}
    /\ bundle = <<>>

WellFormedBundle(b, maxCount, maxGas) ==
    /\ \A k \in 1..(Len(b) - 1) : Priority(b[k]) >= Priority(b[k + 1])
    /\ \A k, l \in 1..Len(b) : k # l => Operations[b[k]].sender # Operations[b[l]].sender
    /\ Len(b) <= maxCount
    /\ BundleGas(b) <= maxGas

\* C6: for every pool state and every (maxCount, maxGas) the list returned by
\* selectForBundle is non-increasing in priority, has at most one entry per
\* sender, at most maxCount entries, and gas within maxGas.
C6_SelectForBundle ==
    \A c \in ArgCounts, g \in ArgGases :
        WellFormedBundle(selectForBundle(mempool, rep, c, g), c, g)

\* two entries of two senders were selected, the higher priority first, out of
\* a pool that holds them in the other order
C6_Witness ==
    /\ cycle = "Submitting"
    /\ bundle = <<3, 5>>
    /\ Len(mempool) = 2 /\ mempool[1].hash = 5 /\ mempool[2].hash = 3

\* C7: at most one bundling cycle is active at any time; a trigger that finds
\* a cycle running starts no second one.
C7_SingleCycle ==
    /\ active <= 1
    /\ active = 1 <=> cycle # "Idle"

\* a cycle is running while the pool-size trigger and the timer can fire
C7_Witness ==
    /\ cycle = "Submitting"
    /\ Len(mempool) >= AutoBundleMempoolSize

\* the bundle of the running cycle is confirmed by the backend
ConfirmedStep == CycleSettle([kind |-> "confirmed", offender |-> 0])

ErrorStep == CycleSettle([kind |-> "error", offender |-> 0])

\* C9 as stated: a failed submission leaves the Mempool as it was and charges
\* no entity.
C9_AsStated ==
    [][ErrorStep => mempool' = mempool /\ rep' = rep]_vars

\* C9, amended: the same, until the same bundle has failed MaxSubmitFailures
\* times in a row; that failure removes the bundle's operations from the
\* Mempool, still charging no entity.
C9_ErrorLeavesPool ==
    [][ErrorStep =>
          /\ rep' = rep
          /\ IF failedBundle = bundle /\ failCount = MaxSubmitFailures - 1
               THEN PoolHashes(mempool') = PoolHashes(mempool) \ SeqHashes(bundle)
               ELSE mempool' = mempool]_vars

\* a submission failed once and the entries of its bundle are still pending
C9_Witness ==
    /\ cycle = "Idle"
    /\ failCount = 1
    /\ failedBundle # <<>>
    /\ SeqHashes(failedBundle) \subseteq PoolHashes(mempool)


(***************************************************************************)
(* Properties of eth_estimateUserOperationGas.                             *)
(***************************************************************************)
\* the request passed parameter validation
ParametersAccepted ==
    validateParameters(deepHexlify(userOp), entryPointInput, TRUE, TRUE).kind = "ok"

\* frame i has no calls, has an error and is no STATICCALL
RevertedLeaf(t, i) ==
    /\ \A j \in 1..Len(t) : t[j].parent # i
    /\ t[i].error
    /\ t[i].type # "STATICCALL"

RevertedLeaves(t) == {i \in 1..Len(t) : RevertedLeaf(t, i)}

\* the estimation ran on a trace whose root reports an error
RootErrorCase ==
    /\ gasResult # NoResult
    /\ ParametersAccepted
    /\ trace # NoTrace
    /\ trace[1].error

GenericMessage == Text("Unexpected error during gas estimation")

\* C12 as stated: a root error without a reverted leaf is always signalled with
\* the generic message.
C12_AsStated ==
    (RootErrorCase /\ RevertedLeaves(trace) = {}) => gasResult.message = GenericMessage

\* C12: when the root of the trace reports an error, the estimation throws a
\* simulation-revert error.  Without a reverted leaf (no childless frame with an
\* error that is no STATICCALL) the message is the revert reason decoded from
\* the root's return data, and the generic message only when the data encodes
\* no reason; the error carries no frame.  With a reverted leaf the error
\* carries and describes the first such leaf in depth-first order.
C12_RootError ==
    RootErrorCase =>
        /\ gasResult.kind = "error"
        /\ gasResult.code = UserOperationReverted
        /\ IF RevertedLeaves(trace) = {}
             THEN /\ gasResult.data = 0
                  /\ gasResult.message =
                        IF trace[1].output = ReasonData
                          THEN [template |-> "revert reason", output |-> ReasonData]
                          ELSE GenericMessage
             ELSE LET leaf == CHOOSE i \in RevertedLeaves(trace) :
                                  \A j \in RevertedLeaves(trace) : i <= j
                  IN  /\ gasResult.data = leaf
                      /\ gasResult.message.template = "reverted with"
                      /\ gasResult.message.type = trace[leaf].type
                      /\ gasResult.message.to = trace[leaf].to

\* a root error over nested frames of which none is a reverted leaf, with return
\* data that encodes a reason
C12_Witness ==
    /\ RootErrorCase
    /\ Len(trace) > 2
    /\ RevertedLeaves(trace) = {}
    /\ \E i \in 2..Len(trace) : trace[i].error
    /\ trace[1].output = ReasonData
    /\ gasResult.message # GenericMessage


\* the frame of the trace that carries the marker; 0 when there is none
MarkedFrame(selector) ==
    IF \E i \in 1..Len(trace) : trace[i].marker = selector
      THEN CHOOSE i \in 1..Len(trace) : trace[i].marker = selector
      ELSE 0

\* q is n / d with the fraction dropped, for d > 0
IsTruncated(q, n, d) ==
    IF n >= 0 THEN q * d <= n /\ n < (q + 1) * d
    ELSE q * d >= n /\ n > (q - 1) * d

\* C13: with A and P the limits computed for the account-validation and the
\* paymaster-validation frame and E = preOpGas - A - P, the estimate's
\* verificationGasLimit is A + trunc(57 E / 100) + 3000 and its
\* paymasterVerificationGasLimit is P + trunc(43 E / 100) + 3000.
C13_ValidationSplit ==
    gasResult.kind = "estimate" =>
        LET A == getCallGasLimit(trace, MarkedFrame(VERIFICATION_SELECTOR)).value
            P == getCallGasLimit(trace, MarkedFrame(VALIDATE_PAYMASTER_SELECTOR)).value
            E == preOpGas - A - P
        IN  /\ IsTruncated(gasResult.verificationGasLimit - A - 3000, 57 * E, 100)
            /\ IsTruncated(gasResult.paymasterVerificationGasLimit - P - 3000, 43 * E, 100)

\* an estimate whose E is negative and no multiple of 100, so that the
\* direction of the rounding shows
C13_Witness ==
    /\ gasResult.kind = "estimate"
    /\ LET A == getCallGasLimit(trace, MarkedFrame(VERIFICATION_SELECTOR)).value
           P == getCallGasLimit(trace, MarkedFrame(VALIDATE_PAYMASTER_SELECTOR)).value
       IN  /\ preOpGas - A - P < 0
           /\ (57 * (A + P - preOpGas)) % 100 # 0
           /\ gasResult.verificationGasLimit < A + 3000


\* C14 as stated: a gas estimation changes nothing: the operation it was
\* passed, the trace, the mempool and the reputation records are as before.
C14_AsStated ==
    [][(gasResult = NoResult /\ gasResult' # NoResult) =>
          /\ userOp' = userOp
          /\ trace' = trace
          /\ mempool' = mempool
          /\ rep' = rep]_vars

\* the operation has every member but the gas members
GasFieldsMissing(op) ==
    \A f \in OpFields :
        (op[f] = NONE) <=> (\E i \in 1..Len(GasFields) : GasFields[i] = f)

\* C20 as stated: an estimation request for the supported entry point whose
\* operation lacks only the gas members is not rejected by parameter
\* validation.
C20_AsStated ==
    (/\ gasResult # NoResult
     /\ entryPointInput = ENTRY_POINT
     /\ GasFieldsMissing(userOp)) =>
        ~(gasResult.kind = "error" /\ gasResult.code = InvalidParams)


(***************************************************************************)
(* Properties of selectBeneficiary.                                        *)
(***************************************************************************)
\* C15 as stated: selectBeneficiary returns the signer's address exactly when
\* the signer's balance is below minBalance; at a balance equal to minBalance
\* it returns the configured beneficiary.
C15_AsStated ==
    beneficiary # NONE =>
        ((beneficiary = SIGNER) <=> (chain.balance < config.minBalance))


(***************************************************************************)
(* Properties of eth_sendUserOperation.                                    *)
(***************************************************************************)
\* the request names no entry point or another one than the bundler's, or its
\* operation lacks a required member or has one that is no hex string
InvalidRequest ==
    \/ entryPointInput = NONE
    \/ entryPointInput \notin {"0xEntryPoint", "0xENTRYPOINT"}
    \/ userOp = NoUserOp
    \/ \E i \in 1..Len(BaseFields \o SignatureFields \o GasFields) :
          userOp[(BaseFields \o SignatureFields \o GasFields)[i]] # HexValue

\* C16: a sendUserOperation request that fails parameter validation (no entry
\* point, another entry point, a required member missing, a member that is no
\* hex string) is answered with an error, the execution manager is not
\* invoked for it, and the mempool and the reputation records stay as they were.
C16_InvalidNotForwarded ==
    [][InvalidRequest' =>
          /\ response'.kind = "error"
          /\ lastAdd' = NoAdd
          /\ mempool' = mempool
          /\ rep' = rep]_vars

\* an operation whose callData is no hex string was rejected while the mempool
\* held an entry
C16_Witness ==
    /\ mempool # <<>>
    /\ userOp # NoUserOp
    /\ entryPointInput = "0xENTRYPOINT"
    /\ userOp["callData"] = NotHexValue
    /\ response.kind = "error"
    /\ lastAdd = NoAdd


(***************************************************************************)
(* Properties of BundlerServer.                                            *)
(***************************************************************************)
\* the step handles a request for a debug method while the flag is off
DebugRequestWhileOff ==
    /\ served' > served
    /\ ~config.debugRpc
    /\ reqItem'.method \in DebugMethods

\* C17: with the debug-RPC flag off, a request for any debug_bundler_ method is
\* answered with an error of code -32601 and no result, and it changes neither
\* the mempool, nor the reputation records, nor the bundling mode and interval,
\* nor starts a bundle.
C17_DebugDisabled ==
    [][DebugRequestWhileOff =>
          /\ "error" \in DOMAIN response'
          /\ "result" \notin DOMAIN response'
          /\ response'.error.code = MethodNotFound
          /\ mempool' = mempool
          /\ rep' = rep
          /\ cycle' = cycle
          /\ active' = active
          /\ config' = config]_vars

\* clearState was asked for with the flag off while the mempool held an entry
C17_Witness ==
    /\ served > 0
    /\ ~config.debugRpc
    /\ reqItem.method = "debug_bundler_clearState"
    /\ mempool # <<>>
    /\ "error" \in DOMAIN response

\* C18 as stated: whatever the request item, handleRpc returns a response with
\* jsonrpc, id and exactly one of result and error; it never throws.
C18_AsStated ==
    served > 0 =>
        /\ {"jsonrpc", "id"} \subseteq DOMAIN response
        /\ ("result" \in DOMAIN response) # ("error" \in DOMAIN response)

\* C19 as stated: a request is handled only after the preflight check has
\* completed successfully.
C19_AsStated == [][served' > served => preflight = "done"]_vars


(***************************************************************************)
(* Further properties of eth_estimateUserOperationGas.                     *)
(***************************************************************************)
\* the trace holds a frame for the phase and the frame reports no error
PhaseRan(selector) ==
    /\ MarkedFrame(selector) # 0
    /\ ~trace[MarkedFrame(selector)].error

\* the estimation got as far as looking for the frames of the phases
ReachedPhases ==
    /\ gasResult # NoResult
    /\ ParametersAccepted
    /\ trace # NoTrace
    /\ ~trace[1].error

\* C23: the estimation returns limits only when the trace holds a frame for
\* each of the four phases (execute, validate-paymaster, post-op,
\* validate-account) and none of them reports an error; when one is absent or
\* reports an error the estimation ends in an error and returns no limit.
C23_AllPhasesOrNone ==
    /\ gasResult.kind = "estimate" => \A selector \in Selectors : PhaseRan(selector)
    /\ (ReachedPhases /\ \E selector \in Selectors : ~PhaseRan(selector)) =>
          /\ gasResult.kind = "error"
          /\ DOMAIN gasResult = {"kind", "message", "code", "data"}

\* an operation with a paymaster whose trace holds the account's frames but no
\* paymaster frame got an error
C23_Witness ==
    /\ ReachedPhases
    /\ userOp["paymaster"] # NONE
    /\ PhaseRan(EXECUTE_USEROP_SELECTOR)
    /\ PhaseRan(VERIFICATION_SELECTOR)
    /\ MarkedFrame(VALIDATE_PAYMASTER_SELECTOR) = 0
    /\ MarkedFrame(POSTOP_SELECTOR) = 0
    /\ gasResult.kind = "error"

\* C24: in every estimate verificationGasLimit + paymasterVerificationGasLimit
\* lies between preOpGas + 5999 and preOpGas + 6001, also when the measured
\* limits exceed preOpGas.
C24_SumOfVerificationLimits ==
    gasResult.kind = "estimate" =>
        LET sum == gasResult.verificationGasLimit + gasResult.paymasterVerificationGasLimit
        IN  preOpGas + 5999 <= sum /\ sum <= preOpGas + 6001

\* an estimate whose measured limits exceed preOpGas and whose sum is
\* preOpGas + 6001
C24_Witness ==
    /\ gasResult.kind = "estimate"
    /\ getCallGasLimit(trace, MarkedFrame(VERIFICATION_SELECTOR)).value
         + getCallGasLimit(trace, MarkedFrame(VALIDATE_PAYMASTER_SELECTOR)).value > preOpGas
    /\ gasResult.verificationGasLimit + gasResult.paymasterVerificationGasLimit
         = preOpGas + 6001


(***************************************************************************)
(* Properties of getCallFromTrace.                                         *)
(***************************************************************************)
\* the frames of the trace from `from` to `to` whose input starts with the
\* selector
MatchingFrames(from, to, selector) ==
    {i \in 1..Len(trace) :
        trace[i].from = from /\ trace[i].to = to /\ trace[i].marker = selector}

\* the first of the matching frames in depth-first pre-order, in which the
\* frames of a trace are numbered; 0 when no frame matches
FirstMatch(from, to, selector) ==
    IF MatchingFrames(from, to, selector) = {} THEN 0
    ELSE CHOOSE i \in MatchingFrames(from, to, selector) :
             \A j \in MatchingFrames(from, to, selector) : i <= j

\* C22: getCallFromTrace returns the first frame in depth-first pre-order whose
\* caller and callee are the given addresses and whose input starts with the
\* selector, and null exactly when no frame of the tree matches.
C22_FirstMatchingFrame ==
    [][\A selector \in Selectors :
          EstimateCall(selector) =>
              call' = FirstMatch(toLowerCase(ENTRY_POINT), Callee(selector), selector)]_vars

\* the frame found is not the first one with its selector: an earlier frame
\* carries the selector but has another caller or callee
C22_Witness ==
    /\ gasResult # NoResult
    /\ call > 1
    /\ trace[call].from = toLowerCase(ENTRY_POINT)
    /\ \E j \in 1..(call - 1) :
          /\ trace[j].marker = trace[call].marker
          /\ (trace[j].from # trace[call].from \/ trace[j].to # trace[call].to)


(***************************************************************************)
(* Properties of _filterLogs.                                              *)
(***************************************************************************)
\* the place in the logs of the UserOperationEvent of operation k, and of the
\* BeforeExecution event for k = 0
EventAt(k) ==
    IF k = 0 THEN 1
    ELSE CHOOSE i \in 1..Len(logs) :
             logs[i].topic = "UserOperationEvent" /\ logs[i].hash = k

\* C21 as stated: for the event of the k-th operation the receipt holds exactly
\* the logs of the k-th group, those between the UserOperationEvent of the
\* operation before (BeforeExecution for k = 1) and its own, and no log or
\* UserOperationEvent of another operation.
C21_AsStated ==
    receipt # NoResponse =>
        /\ receipt.kind = "receipt"
        /\ receipt.logs = SubSeq(logs, EventAt(userOpEvent.hash - 1) + 1,
                                 EventAt(userOpEvent.hash) - 1)

=============================================================================
